---- MODULE Spec2Model ----
(***************************************************************************)
(* A state-machine model of kernel subsystems of Hootux:                   *)
(*   - the DMA ownership guard           (kernel/src/mem/dma.rs)           *)
(*   - the physical region describer     (kernel/src/mem/dma.rs)           *)
(*   - the serial dispatcher and its     (kernel/src/serial/dispatcher.rs) *)
(*     frame-control file                                                  *)
(*   - the MMIO allocator                (kernel/src/allocator/            *)
(*                                        alloc_interface.rs)              *)
(*   - the boot frame allocator          (src/mem.rs)                      *)
(* Each subsystem has its own specifications (SpecDma, SpecPrd,            *)
(* SpecTarget, SpecSerial*, SpecMmio, SpecBfa, SpecFrameCtl) over one set  *)
(* of variables; a specification leaves the variables of the other         *)
(* subsystems at their initial values. SpecTarget runs describers          *)
(* obtained from a guard and from its claimed views.                       *)
(***************************************************************************)
EXTENDS Integers, Sequences, FiniteSets, TLC

(* ---------------------------------------------------------------- bounds *)
MaxGuards == 2
MaxClaims == 2
MaxPages == 3
NFrames == 4
MaxHandles == 2
MaxBuf == 2
MaxBytes == 2
MaxRxFifo == 1
MaxTx == 3
Quota == 2
MaxVPages == 3
MaxRegions == 2
MaxMemPages == 3
MaxFrameCalls == 4

(* ------------------------------------------------------------- constants *)
PAGE_SIZE == 4096
BaseClock == 115200
MaxBaud == 115200
U16Max == 65535
ReadWindow == 10

VARIABLES
    \* DMA guards (one entry per guard)
    lock,       \* DmaGuard.lock: "None" or "Some" (the Arc<AtomicBool> exists)
    flag,       \* the value of the shared AtomicBool
    inner,      \* the wrapped buffer: "held", "freed", "leaked", "returned"
    guard,      \* the guard object: "alive", "dropped", "unwrapped"
    views,      \* number of live BorrowedDmaGuard views of the guard
    dmaBuf,     \* the byte slice a guard's as_mut() returns: page offset, length
    viewData,   \* BorrowedDmaGuard.data of the guard's views
    prdSrc,     \* the target the describer in use was obtained from
    prdSeqs,    \* per target, the descriptions a describer of it yielded up to None
    claims,     \* number of successful claim() calls so far
    dmaRet,     \* what the last guard operation returned
    halted,     \* a panic happened: the panic handler loops forever
    \* physical region describer
    prdLen,     \* data.len()
    prdOff,     \* intra-page offset of the buffer's first byte
    prdMap,     \* page table: virtual page of the buffer -> physical frame
    prdNext,    \* PhysicalRegionDescriber.next
    prdChunks,  \* the descriptions yielded so far
    prdState,   \* "iter", "done" (next() returned None), "panicked"
    overflowChecks, \* whether the build panics on integer overflow
    \* serial dispatcher
    driverRef,  \* the driver still holds its Arc<Serial>
    handle,     \* which SerialDispatcher handles (clones) exist
    fifo_lock,  \* SerialDispatcher.fifo_lock of each handle
    stream_lock,\* SerialDispatcherInner.stream_lock
    stream,     \* SerialDispatcherInner.stream: the registered waker (0: none)
    fut,        \* the ReadFut borrowed from each handle: "none" or "pending"
    rx_tgt,     \* Serial.rx_tgt: the installed receive target
    rxFifo,     \* bytes received by the port and not yet taken by receive()
    rx_idle,    \* Serial.rx_idle
    rxSeq,      \* number of bytes that have arrived on the line
    run,        \* Serial.run
    write_buff, \* Serial.write_buff: bytes queued for transmission
    txSent,     \* bytes handed to the hardware by try_send, in order
    txSeq,      \* number of bytes written so far
    txFreed,    \* number of sent bytes whose buffer space free() has released
    wbLock,     \* the handle whose suspended write holds write_buff's lock (0: free)
    draining,   \* SerialDispatcherInner.draining
    pend,       \* SerialDispatcherInner.pend: the wakers of pending writers
    woke,       \* the last run iteration's pop_front: -1 not reached, 0 None, else the waker
    runPc,      \* the run task: "idle" (not spawned), "await", "stopped"
    hwEvent,    \* the port's hardware-ready event has fired and run has not yet resumed
    lastLock,   \* the lock the dispatcher took last, and whether interrupts were masked
    ret,        \* what the last dispatcher operation returned
    \* MMIO allocator
    mmioAddr,   \* MmioAlloc.addr
    pageTable,  \* SYS_MAPPER: virtual page -> the frame and flags it is mapped with
    virtRanges, \* the virtual ranges COMBINED_ALLOCATOR has handed out
    mmioLive,   \* the allocations returned by allocate and not yet deallocated
    mmioRet,    \* what the last MmioAlloc operation returned
    \* boot frame allocator
    memory_map, \* BootInfoFrameAllocator.memory_map
    bfaNext,    \* BootInfoFrameAllocator.next
    bfaOut,     \* what the calls of allocate_frame returned, in call order
    \* frame-control file
    divisor,    \* Serial.divisor
    bits,       \* Serial.bits, a DataBits
    parity,     \* Serial.parity, a Parity
    stop,       \* Serial.stop, a StopBits
    fcRet       \* what the last frame-control operation returned

tgtVars == <<dmaBuf, viewData, prdSrc, prdSeqs>>
dmaVars == <<lock, flag, inner, guard, views, claims, dmaRet, tgtVars>>
prdVars == <<prdLen, prdOff, prdMap, prdNext, prdChunks, prdState, overflowChecks>>
serVars == <<driverRef, handle, fifo_lock, stream_lock, stream, fut, rx_tgt, rxFifo,
             rx_idle, rxSeq, run, write_buff, txSent, txSeq, ret,
             txFreed, wbLock, draining, pend, woke, runPc, hwEvent, lastLock>>
mmioVars == <<mmioAddr, pageTable, virtRanges, mmioLive, mmioRet>>
\* the subsystems modelled after the first three
bfaVars == <<memory_map, bfaNext, bfaOut>>
fcVars == <<divisor, bits, parity, stop, fcRet>>
extVars == <<mmioVars, bfaVars, fcVars>>
vars == <<dmaVars, prdVars, serVars, extVars, halted>>

Min(a, b) == IF a < b THEN a ELSE b

(* ======================================================== DMA guard ==== *)
Guards == 1..MaxGuards

\* lock.take().is_some_and(|v| v.load(Acquire)), also query_owned's body
IsClaimed(l, f) == l = "Some" /\ f

ClaimAlways(l, f) == TRUE
\* claim(): compare_exchange(false, true) on an existing flag, or a new flag
ClaimSucceeds(l, f) == IF l = "Some" THEN ~f ELSE TRUE

DropFreesAlways(l, f) == TRUE
\* Drop for DmaGuard: the inner value is dropped unless the flag is set
DropFrees(l, f) == ~IsClaimed(l, f)

UnwrapNeverPanics(l, f) == FALSE
\* DmaGuard::unwrap: panics when the flag is set
UnwrapPanics(l, f) == IsClaimed(l, f)

ViewDropKeepsFlag == TRUE
\* Drop for BorrowedDmaGuard: lock.store(false)
ViewDropStore == FALSE

\* a slice: its offset in its first page and its length
Slice(off, len) == [off |-> off, len |-> len]
EmptySlice == Slice(0, 0)
NoSlice == Slice(-1, 0)
NoSeq == <<[start |-> -1, addr |-> -1, size |-> 0]>>
NoTargetSeqs == [guard |-> NoSeq, view |-> NoSeq]
NoSrc == [kind |-> "none", g |-> 0]

\* DmaGuard::from for every guard; no view and no describer yet
GuardsInit ==
    /\ viewData = [g \in Guards |-> NoSlice]
    /\ prdSrc = NoSrc
    /\ prdSeqs = [g \in Guards |-> NoTargetSeqs]

DmaInit ==
    /\ dmaBuf = [g \in Guards |-> EmptySlice]
    /\ GuardsInit
    /\ lock = [g \in Guards |-> "None"]
    /\ flag = [g \in Guards |-> FALSE]
    /\ inner = [g \in Guards |-> "held"]
    /\ guard = [g \in Guards |-> "alive"]
    /\ views = [g \in Guards |-> 0]
    /\ claims = [g \in Guards |-> 0]
    /\ dmaRet = [op |-> "from", g |-> 0, res |-> "guard"]

Claim(g) ==
    /\ ~halted
    /\ guard[g] = "alive"
    /\ claims[g] < MaxClaims
    /\ IF ClaimSucceeds(lock[g], flag[g])
       THEN /\ lock' = [lock EXCEPT ![g] = "Some"]
            /\ flag' = [flag EXCEPT ![g] = TRUE]
            /\ views' = [views EXCEPT ![g] = @ + 1]
            /\ claims' = [claims EXCEPT ![g] = @ + 1]
            /\ dmaRet' = [op |-> "claim", g |-> g, res |-> "Some"]
            /\ viewData' = [viewData EXCEPT ![g] = dmaBuf[g]]   \* data: self.as_mut()
       ELSE /\ dmaRet' = [op |-> "claim", g |-> g, res |-> "None"]
            /\ UNCHANGED <<lock, flag, views, claims, viewData>>
    /\ UNCHANGED <<inner, guard, halted, prdVars, extVars, serVars, dmaBuf, prdSrc,
                   prdSeqs>>

DropView(g) ==
    /\ ~halted
    /\ views[g] > 0
    /\ flag' = [flag EXCEPT ![g] = ViewDropStore]
    /\ views' = [views EXCEPT ![g] = @ - 1]
    /\ dmaRet' = [op |-> "drop_view", g |-> g, res |-> "unit"]
    /\ UNCHANGED <<lock, inner, guard, claims, halted, prdVars, extVars, serVars,
                   tgtVars>>

\* core::mem::forget(self): the guard unwrap() consumed is never dropped
UnwrapNotForgotten == "alive"
AfterUnwrap == "unwrapped"

Unwrap(g) ==
    /\ ~halted
    /\ guard[g] = "alive"
    /\ lock' = [lock EXCEPT ![g] = "None"]
    /\ IF UnwrapPanics(lock[g], flag[g])
       THEN /\ halted' = TRUE
            /\ dmaRet' = [op |-> "unwrap", g |-> g, res |-> "panic"]
            /\ UNCHANGED <<inner, guard>>
       ELSE /\ inner' = [inner EXCEPT ![g] = "returned"]
            /\ guard' = [guard EXCEPT ![g] = AfterUnwrap]
            /\ dmaRet' = [op |-> "unwrap", g |-> g, res |-> "buffer"]
            /\ UNCHANGED halted
    /\ UNCHANGED <<flag, views, claims, prdVars, extVars, serVars, tgtVars>>

DropGuard(g) ==
    /\ ~halted
    /\ guard[g] = "alive"
    /\ lock' = [lock EXCEPT ![g] = "None"]
    /\ guard' = [guard EXCEPT ![g] = "dropped"]
    /\ inner' = [inner EXCEPT ![g] =
                    IF DropFrees(lock[g], flag[g]) THEN "freed" ELSE "leaked"]
    /\ dmaRet' = [op |-> "drop_guard", g |-> g, res |-> "unit"]
    /\ UNCHANGED <<flag, views, claims, halted, prdVars, extVars, serVars, tgtVars>>

QueryOwned(g) ==
    /\ ~halted
    /\ guard[g] = "alive"
    /\ dmaRet' = [op |-> "query_owned", g |-> g, res |-> IsClaimed(lock[g], flag[g])]
    /\ UNCHANGED <<lock, flag, inner, guard, views, claims, halted, prdVars, extVars,
                   serVars, tgtVars>>

(* ============================================ physical region describer *)
NoAddr == -1
Frames == 1..NFrames
Rems == {0, 1, 3000}
Offsets == {0, 2048, 3500}
Lengths == {p * PAGE_SIZE + r : p \in 0..(MaxPages - 1), r \in Rems} \ {0}

\* number of virtual pages a buffer of n bytes at intra-page offset o touches
NPages(n, o) == (o + n + PAGE_SIZE - 1) \div PAGE_SIZE

\* the page-table walk: physical address of byte i of the buffer
translate_ptr(i) ==
    prdMap[(prdOff + i) \div PAGE_SIZE] * PAGE_SIZE + ((prdOff + i) % PAGE_SIZE)

\* next_chunk: data.get(index)? then the translation
next_chunk(i) == IF i < prdLen THEN translate_ptr(i) ELSE NoAddr

FirstDiffClamped(base, len) == Min(PAGE_SIZE - (base % PAGE_SIZE), len)
\* PAGE_SIZE - (base & (PAGE_SIZE-1)).min(data.len()): the method call binds first
FirstDiff(base, len) == PAGE_SIZE - Min(base % PAGE_SIZE, len)

\* the loop of next(): extend diff while the next page is physically contiguous
RECURSIVE ScanLoop(_, _, _)
ScanLoop(base, nxt, diff) ==
    LET addr == next_chunk(diff + nxt) IN
    IF addr = NoAddr THEN [diff |-> diff, panic |-> FALSE]
    ELSE IF addr < base
         THEN \* addr - base underflows u64: a panic with overflow checks, else
              \* a wrapped value that never equals diff
              [diff |-> diff, panic |-> overflowChecks]
    ELSE IF addr - base = diff
         THEN LET d == Min(diff + PAGE_SIZE, prdLen) IN
              IF d = prdLen THEN [diff |-> d, panic |-> FALSE]
              ELSE ScanLoop(base, nxt, d)
    ELSE [diff |-> diff, panic |-> FALSE]

PrdInit ==
    /\ prdLen \in Lengths
    /\ prdOff \in Offsets
    /\ prdMap \in {m \in [0..(NPages(prdLen, prdOff) - 1) -> Frames] :
                     \A a, b \in DOMAIN m : a # b => m[a] # m[b]}
    /\ overflowChecks \in BOOLEAN
    /\ prdNext = 0
    /\ prdChunks = <<>>
    /\ prdState = "iter"

PrdIdle ==
    /\ prdLen = 0
    /\ prdOff = 0
    /\ prdMap = <<>>
    /\ overflowChecks = FALSE
    /\ prdNext = 0
    /\ prdChunks = <<>>
    /\ prdState = "iter"

\* Iterator::next
PrdNext ==
    /\ prdState \in {"iter", "done"}
    /\ LET base == next_chunk(prdNext) IN
       IF base = NoAddr
       THEN /\ prdState' = "done"
            /\ UNCHANGED <<prdNext, prdChunks>>
       ELSE LET r == ScanLoop(base, prdNext, FirstDiff(base, prdLen)) IN
            IF r.panic
            THEN /\ prdState' = "panicked"
                 /\ UNCHANGED <<prdNext, prdChunks>>
            ELSE /\ prdNext' = prdNext + r.diff
                 /\ prdChunks' = Append(prdChunks,
                        [start |-> prdNext, addr |-> base, size |-> r.diff])
                 /\ UNCHANGED prdState
    /\ UNCHANGED <<prdLen, prdOff, prdMap, overflowChecks, dmaVars, serVars, extVars,
                   halted>>

\* a guard and its buffer, the pages of the buffer mapped to distinct frames;
\* the other guards wrap an empty Vec
TargetInit ==
    /\ \E o \in Offsets, n \in Lengths :
          /\ dmaBuf \in {b \in [Guards -> {EmptySlice, Slice(o, n)}] :
                           \A g \in Guards : (b[g] # EmptySlice) <=> (g = 1)}
          /\ prdMap \in {m \in [0..(NPages(n, o) - 1) -> Frames] :
                           \A a, b \in DOMAIN m : a # b => m[a] # m[b]}
    /\ GuardsInit
    /\ lock = [g \in Guards |-> "None"]
    /\ flag = [g \in Guards |-> FALSE]
    /\ inner = [g \in Guards |-> "held"]
    /\ guard = [g \in Guards |-> "alive"]
    /\ views = [g \in Guards |-> 0]
    /\ claims = [g \in Guards |-> 0]
    /\ dmaRet = [op |-> "from", g |-> 0, res |-> "guard"]
    /\ overflowChecks \in BOOLEAN
    /\ prdLen = 0
    /\ prdOff = 0
    /\ prdNext = 0
    /\ prdChunks = <<>>
    /\ prdState = "iter"

\* DmaTarget::as_mut of the guard and of its claimed view
AsMut(kind, g) == IF kind = "guard" THEN dmaBuf[g] ELSE viewData[g]

\* DmaTarget::prd: next: 0
KeepsNext(n) == n
FreshNext(n) == 0

\* DmaTarget::prd on the guard or on a claimed view of it. The descriptions of
\* the describer it replaces are noted if that one had reached None.
Prd(kind, g) ==
    /\ ~halted
    /\ prdState # "panicked"
    /\ IF kind = "guard" THEN guard[g] = "alive" ELSE views[g] > 0
    /\ prdLen' = AsMut(kind, g).len
    /\ prdOff' = AsMut(kind, g).off
    /\ prdNext' = FreshNext(prdNext)
    /\ prdChunks' = <<>>
    /\ prdState' = "iter"
    /\ prdSrc' = [kind |-> kind, g |-> g]
    /\ prdSeqs' = IF prdState = "done" /\ prdSrc # NoSrc
                  THEN [prdSeqs EXCEPT ![prdSrc.g][prdSrc.kind] = prdChunks]
                  ELSE prdSeqs
    /\ UNCHANGED <<prdMap, overflowChecks, lock, flag, inner, guard, views, claims,
                   dmaRet, dmaBuf, viewData, serVars, extVars, halted>>


(* ==================================================== serial dispatcher *)
Handles == 1..MaxHandles
Modes == {"Locked", "Read", "Write"}

\* OpenMode::is_read / OpenMode::is_write
IsRead(m) == m = "Read"
IsWrite(m) == m = "Write"

\* the Arc<Serial> a suspended write() keeps in its local `real`
WriteHolders == {h \in DOMAIN fut : fut[h].st = "write"}

\* the Weak<Serial> upgrades while a strong reference exists: the driver's, the
\* one run() holds across its await, or the one a suspended write() holds
PortAlive == driverRef \/ runPc = "await" \/ WriteHolders # {}

\* whether the lock() call of a function is inside a without_interrupts closure:
\* read() locks rx_tgt at line 244 inside the closure opened at 243, poll() at
\* 304 inside 303, run() locks write_buff at 80 inside 79; write() locks
\* write_buff at 330, before the closure at 334 that it enters only if !run
MaskedAt(site) == site # "write"

NoTarget == [owner |-> 0, len |-> 0, data |-> <<>>]

\* what the last call returned: the result and the byte count that goes with it
Ret(op, res, n) == [op |-> op, res |-> res, n |-> n]

\* a handle's suspended read: none, or pending on a buffer of len bytes
NoFut == [st |-> "none", len |-> 0, last |-> 0]

\* a lock acquisition: where it is, and whether interrupts are masked there
LockAt(site) == [site |-> site, masked |-> MaskedAt(site)]
NoLock == [site |-> "none", masked |-> TRUE]

SerialInit ==
    /\ driverRef = TRUE
    /\ handle = [h \in Handles |-> h = 1]
    /\ fifo_lock = [h \in Handles |-> "Locked"]
    /\ stream_lock = FALSE
    /\ stream = 0
    /\ fut = [h \in Handles |-> NoFut]
    /\ rx_tgt = NoTarget
    /\ rxFifo = <<>>
    /\ rx_idle = TRUE
    /\ rxSeq = 0
    /\ run = FALSE
    /\ write_buff = <<>>
    /\ txSent = <<>>
    /\ txSeq = 0
    /\ txFreed = 0
    /\ wbLock = 0
    /\ draining = FALSE
    /\ pend = <<>>
    /\ woke = -1
    /\ runPc = "idle"
    /\ hwEvent = FALSE
    /\ lastLock = NoLock
    /\ ret = Ret("new", "Ok", 0)

\* a handle can be used: it exists and no future borrows it
Usable(h) == ~halted /\ handle[h] /\ fut[h].st = "none"

rxVars == <<rx_tgt, rxFifo, rx_idle, rxSeq>>
txVars == <<run, write_buff, txSent, txSeq>>
wrVars == <<txFreed, wbLock, draining, pend, woke, runPc, hwEvent>>

\* #[derive(Clone)]: the clone shares inner and copies fifo_lock
CloneFile(h, h2) ==
    /\ Usable(h)
    /\ ~handle[h2]
    /\ handle' = [handle EXCEPT ![h2] = TRUE]
    /\ fifo_lock' = [fifo_lock EXCEPT ![h2] = fifo_lock[h]]
    /\ ret' = Ret("clone", "Ok", 0)
    /\ UNCHANGED <<driverRef, stream_lock, stream, fut, rxVars, txVars, wrVars,
                   dmaVars, prdVars, extVars, halted>>
    /\ UNCHANGED lastLock

OpenAlwaysOk(mode, alive, locked, spurious) == "Ok"
\* Fifo::open: what it returns
OpenResult(mode, alive, locked, spurious) ==
    IF ~alive THEN "MediaError"
    ELSE IF IsRead(mode) /\ (locked \/ spurious) THEN "Busy"
    ELSE "Ok"

\* compare_exchange_weak may fail spuriously, where it is reached and would succeed
WeakFailures(mode, alive, locked) ==
    IF IsRead(mode) /\ alive /\ ~locked THEN BOOLEAN ELSE {FALSE}

Open(h, mode) ==
    /\ Usable(h)
    /\ \E spurious \in WeakFailures(mode, PortAlive, stream_lock) :
         LET res == OpenResult(mode, PortAlive, stream_lock, spurious) IN
         /\ ret' = Ret("open", res, 0)
         /\ IF res = "Ok"
            THEN /\ stream_lock' = (stream_lock \/ IsRead(mode))
                 /\ fifo_lock' = [fifo_lock EXCEPT ![h] = mode]
            ELSE UNCHANGED <<stream_lock, fifo_lock>>
    /\ UNCHANGED <<driverRef, handle, stream, fut, rxVars, txVars, wrVars,
                   dmaVars, prdVars, extVars, halted>>
    /\ UNCHANGED lastLock

\* Fifo::close: what it returns, and the stream lock it leaves
CloseAlwaysOk(m) == "Ok"
CloseResult(m) == IF m = "Locked" THEN "NotReady" ELSE "Ok"
CloseStreamLock(m, locked) == IF m # "Locked" /\ IsWrite(m) THEN FALSE ELSE locked

Close(h) ==
    /\ Usable(h)
    /\ ret' = Ret("close", CloseResult(fifo_lock[h]), 0)
    /\ stream_lock' = CloseStreamLock(fifo_lock[h], stream_lock)
    /\ fifo_lock' = [fifo_lock EXCEPT ![h] = "Locked"]
    /\ UNCHANGED <<driverRef, handle, stream, fut, rxVars, txVars, wrVars,
                   dmaVars, prdVars, extVars, halted>>
    /\ UNCHANGED lastLock

\* Drop for SerialDispatcher: close(), its result ignored
DropHandle(h) ==
    /\ Usable(h)
    /\ ret' = Ret("drop", "Ok", 0)
    /\ stream_lock' = CloseStreamLock(fifo_lock[h], stream_lock)
    /\ fifo_lock' = [fifo_lock EXCEPT ![h] = "Locked"]
    /\ handle' = [handle EXCEPT ![h] = FALSE]
    /\ UNCHANGED <<driverRef, stream, fut, rxVars, txVars, wrVars, dmaVars, prdVars, extVars, halted>>
    /\ UNCHANGED lastLock

\* write_sync: a clone of the handle is opened for write, written to and dropped
WriteSync(h) ==
    /\ Usable(h)
    /\ txSeq < MaxTx
    /\ IF ~PortAlive
       THEN \* open fails; the clone, still in the caller's mode, is dropped
            /\ ret' = Ret("write_sync", "MediaError", 0)
            /\ stream_lock' = CloseStreamLock(fifo_lock[h], stream_lock)
            /\ UNCHANGED txVars
       ELSE \* write(): run.swap(true), push, and prime the hardware if idle
            /\ ret' = Ret("write_sync", "Ok", 0)
            /\ txSeq' = txSeq + 1
            /\ run' = TRUE
            /\ IF run
               THEN /\ write_buff' = Append(write_buff, txSeq + 1)
                    /\ UNCHANGED txSent
               ELSE /\ write_buff' = Tail(Append(write_buff, txSeq + 1))
                    /\ txSent' = Append(txSent, Head(Append(write_buff, txSeq + 1)))
            /\ stream_lock' = CloseStreamLock("Write", stream_lock)
    /\ UNCHANGED <<driverRef, handle, fifo_lock, stream, fut, rxVars, wrVars,
                   dmaVars, prdVars, extVars, halted>>
    /\ lastLock' = IF PortAlive THEN LockAt("write") ELSE lastLock

SlotNeverBusy(t) == FALSE
\* read(): l.is_some()
SlotBusy(t) == t.owner # 0

TakeAll(fifo, n) == Len(fifo)
\* read(): the loop takes received bytes until the buffer is full
TakeCount(fifo, n) == Min(Len(fifo), n)

\* Read::read
Read(h, n) ==
    /\ Usable(h)
    /\ IF ~IsRead(fifo_lock[h])
       THEN /\ ret' = Ret("read", "NotReady", 0)
            /\ UNCHANGED <<fut, rxVars, halted>>
       ELSE IF ~PortAlive
       THEN /\ ret' = Ret("read", "MediaError", 0)
            /\ UNCHANGED <<fut, rxVars, halted>>
       ELSE IF SlotBusy(rx_tgt)
       THEN /\ ret' = Ret("read", "Busy", 0)
            /\ UNCHANGED <<fut, rxVars, halted>>
       ELSE IF n = 0 /\ rxFifo # <<>>
       THEN \* buff[0] of an empty buffer: index out of bounds
            /\ ret' = Ret("read", "panic", 0)
            /\ halted' = TRUE
            /\ rxFifo' = Tail(rxFifo)
            /\ UNCHANGED <<fut, rx_tgt, rx_idle, rxSeq>>
       ELSE LET k == TakeCount(rxFifo, n) IN
            /\ rxFifo' = SubSeq(rxFifo, k + 1, Len(rxFifo))
            /\ IF k >= n /\ n > 0
               THEN /\ ret' = Ret("read", "Ok", n)
                    /\ UNCHANGED <<fut, rx_tgt>>
               ELSE /\ rx_tgt' = [owner |-> h, len |-> n, data |-> SubSeq(rxFifo, 1, k)]
                    /\ fut' = [fut EXCEPT ![h] = [st |-> "pending", len |-> n, last |-> 0]]
                    /\ ret' = Ret("read", "Pending", 0)
            /\ UNCHANGED <<rx_idle, rxSeq, halted>>
    /\ UNCHANGED <<driverRef, handle, fifo_lock, stream_lock, stream, txVars, wrVars,
                   dmaVars, prdVars, extVars>>
    /\ lastLock' = IF IsRead(fifo_lock[h]) /\ PortAlive THEN LockAt("read") ELSE lastLock

PollIgnoresCount(t, idle) ==
    IF Len(t.data) = t.len THEN "full" ELSE IF idle THEN "partial" ELSE "pending"
\* ReadFut::poll: the three-way decision on the installed target
PollDecision(t, idle) ==
    IF Len(t.data) = t.len THEN "full"
    ELSE IF idle /\ Len(t.data) > 0 THEN "partial"
    ELSE "pending"

\* Future for ReadFut::poll
Poll(h) ==
    /\ ~halted
    /\ handle[h]
    /\ fut[h].st = "pending"
    /\ IF ~IsRead(fifo_lock[h])
       THEN /\ ret' = Ret("poll", "NotReady", 0)
            /\ fut' = [fut EXCEPT ![h] = NoFut]
            /\ UNCHANGED <<rx_tgt, stream, halted>>
       ELSE IF ~PortAlive
       THEN /\ ret' = Ret("poll", "MediaError", 0)
            /\ fut' = [fut EXCEPT ![h] = NoFut]
            /\ UNCHANGED <<rx_tgt, stream, halted>>
       ELSE IF ~SlotBusy(rx_tgt)
       THEN \* (*l).as_ref().unwrap() on None
            /\ ret' = Ret("poll", "panic", 0)
            /\ halted' = TRUE
            /\ UNCHANGED <<rx_tgt, stream, fut>>
       ELSE IF PollDecision(rx_tgt, rx_idle) = "pending"
       THEN /\ stream' = h
            /\ ret' = Ret("poll", "Pending", 0)
            /\ UNCHANGED <<rx_tgt, fut, halted>>
       ELSE /\ ret' = Ret("poll", "Ok", Len(rx_tgt.data))
            /\ rx_tgt' = NoTarget
            /\ fut' = [fut EXCEPT ![h] = NoFut]
            /\ UNCHANGED <<stream, halted>>
    /\ UNCHANGED <<driverRef, handle, fifo_lock, stream_lock, rxFifo, rx_idle, rxSeq,
                   txVars, wrVars, dmaVars, prdVars, extVars>>
    /\ lastLock' = IF IsRead(fifo_lock[h]) /\ PortAlive THEN LockAt("poll") ELSE lastLock

DropFutClears(t) == NoTarget
\* ReadFut has no Drop: dropping it leaves the slot as it is
DropFutSlot(t) == t

\* the suspended read is dropped before it completes: nothing runs
DropFut(h) ==
    /\ ~halted
    /\ handle[h]
    /\ fut[h].st = "pending"
    /\ fut' = [fut EXCEPT ![h] = NoFut]
    /\ rx_tgt' = DropFutSlot(rx_tgt)
    /\ ret' = Ret("drop_fut", "Ok", 0)
    /\ UNCHANGED <<driverRef, handle, fifo_lock, stream_lock, stream, rxFifo, rx_idle, rxSeq,
                   txVars, wrVars, dmaVars, prdVars, extVars, halted>>
    /\ UNCHANGED lastLock

\* receive interrupt: a byte arrives and goes to the installed target if it has
\* room, else to the port's receive buffer (dropped when that is full)
RxByte ==
    /\ ~halted
    /\ PortAlive
    /\ rxSeq < MaxBytes
    /\ rxSeq' = rxSeq + 1
    /\ rx_idle' = FALSE
    /\ IF SlotBusy(rx_tgt) /\ Len(rx_tgt.data) < rx_tgt.len
       THEN /\ rx_tgt' = [rx_tgt EXCEPT !.data = Append(@, rxSeq + 1)]
            /\ UNCHANGED rxFifo
       ELSE /\ rxFifo' = IF Len(rxFifo) < MaxRxFifo
                         THEN Append(rxFifo, rxSeq + 1) ELSE rxFifo
            /\ UNCHANGED rx_tgt
    /\ UNCHANGED <<driverRef, handle, fifo_lock, stream_lock, stream, fut, txVars, wrVars, ret,
                   dmaVars, prdVars, extVars, halted>>
    /\ UNCHANGED lastLock

\* the line goes idle
LineIdle ==
    /\ ~halted
    /\ PortAlive
    /\ ~rx_idle
    /\ rx_idle' = TRUE
    /\ UNCHANGED <<driverRef, handle, fifo_lock, stream_lock, stream, fut, rx_tgt,
                   rxFifo, rxSeq, txVars, wrVars, ret, dmaVars, prdVars, extVars, halted>>
    /\ UNCHANGED lastLock

\* the last strong reference goes away: the port and the state it owns are freed
SerialFreed ==
    /\ rx_tgt' = NoTarget
    /\ rxFifo' = <<>>
    /\ rx_idle' = TRUE
    /\ run' = FALSE
    /\ write_buff' = <<>>
    /\ txFreed' = Len(txSent)
    /\ hwEvent' = FALSE

\* the driver drops its Arc<Serial>
DriverDrop ==
    /\ ~halted
    /\ driverRef
    /\ driverRef' = FALSE
    /\ IF runPc = "await" \/ WriteHolders # {}
       THEN UNCHANGED <<rx_tgt, rxFifo, rx_idle, run, write_buff, txFreed, hwEvent>>
       ELSE SerialFreed
    /\ UNCHANGED <<handle, fifo_lock, stream_lock, stream, fut, rxSeq, txSent, txSeq, ret,
                   wbLock, draining, pend, woke, runPc, dmaVars, prdVars, extVars, halted>>
    /\ UNCHANGED lastLock

(* ------------------------------------------- serial write path and run *)
\* RingBuffer::len of write_buff: the bytes not yet sent and the sent bytes
\* whose space has not been freed; RingBuffer::valid_len is Len(write_buff)
Occupancy == Len(write_buff) + (Len(txSent) - txFreed)

\* the bytes a write of n bytes pushes
NewBytes(n) == [k \in 1..n |-> txSeq + k]

PrimesAlways(wasRunning) == TRUE
\* write(): if !run, with run the value run.swap(true) returned
Primes(wasRunning) == ~wasRunning

WriteUnchecked(m) == TRUE
\* write(): if self.fifo_lock.is_write()
WriteAllowed(m) == IsWrite(m)

\* Write::write, up to its suspension at push.await
Write(h, n) ==
    /\ Usable(h)
    /\ txSeq + n <= MaxTx
    /\ IF ~WriteAllowed(fifo_lock[h])
       THEN /\ ret' = Ret("write", "NotReady", 0)
            /\ UNCHANGED <<fut, txVars, wbLock, halted>>
       ELSE IF ~PortAlive
       THEN /\ ret' = Ret("write", "MediaError", 0)
            /\ UNCHANGED <<fut, txVars, wbLock, halted>>
       ELSE IF wbLock # 0
       THEN \* write_buff.lock() spins on a lock a suspended write holds
            /\ run' = TRUE
            /\ halted' = TRUE
            /\ ret' = Ret("write", "hang", 0)
            /\ UNCHANGED <<fut, write_buff, txSent, txSeq, wbLock>>
       ELSE LET pushed == write_buff \o NewBytes(n) IN
            /\ run' = TRUE
            /\ txSeq' = txSeq + n
            /\ IF ~Primes(run)
               THEN \* the guard lives on across push.await
                    /\ write_buff' = pushed
                    /\ wbLock' = h
                    /\ UNCHANGED txSent
               ELSE \* one byte primes the hardware and the guard is dropped
                    /\ write_buff' = Tail(pushed)
                    /\ txSent' = Append(txSent, Head(pushed))
                    /\ UNCHANGED wbLock
            /\ fut' = [fut EXCEPT ![h] = [st |-> "write", len |-> n, last |-> txSeq + n]]
            /\ ret' = Ret("write", "Pending", 0)
            /\ UNCHANGED halted
    /\ UNCHANGED <<driverRef, handle, fifo_lock, stream_lock, stream, rxVars,
                   txFreed, draining, pend, woke, runPc, hwEvent, dmaVars, prdVars, extVars>>
    /\ lastLock' = IF WriteAllowed(fifo_lock[h]) /\ PortAlive THEN LockAt("write") ELSE lastLock

\* the suspended write on h goes away (completed or dropped): its guard, if it
\* holds one, and its Arc<Serial> are dropped
WriteReleased(h) ==
    /\ fut' = [fut EXCEPT ![h] = NoFut]
    /\ wbLock' = IF wbLock = h THEN 0 ELSE wbLock
    /\ IF driverRef \/ runPc = "await" \/ WriteHolders # {h}
       THEN UNCHANGED <<rxVars, run, write_buff, txFreed, hwEvent>>
       ELSE SerialFreed /\ UNCHANGED rxSeq
    /\ UNCHANGED <<driverRef, handle, fifo_lock, stream_lock, stream, txSent, txSeq,
                   draining, pend, woke, runPc, dmaVars, prdVars, extVars, halted>>
    /\ UNCHANGED lastLock

\* push.await completes once the pushed bytes have been sent and freed
WriteDone(h) ==
    /\ ~halted
    /\ handle[h]
    /\ fut[h].st = "write"
    /\ txFreed >= fut[h].last
    /\ ret' = Ret("write", "Ok", fut[h].len)
    /\ WriteReleased(h)

\* the suspended write is dropped before it completes
DropWrite(h) ==
    /\ ~halted
    /\ handle[h]
    /\ fut[h].st = "write"
    /\ ret' = Ret("drop_fut", "Ok", 0)
    /\ WriteReleased(h)

\* transmit-holding-register-empty interrupt: the handler sends the next queued
\* byte, or clears run when nothing is queued; it spins when a suspended task
\* holds write_buff's lock
HwReady ==
    /\ ~halted
    /\ PortAlive
    /\ run
    /\ hwEvent' = TRUE
    /\ IF wbLock # 0
       THEN /\ halted' = TRUE
            /\ UNCHANGED <<run, write_buff, txSent>>
       ELSE /\ IF write_buff = <<>>
               THEN run' = FALSE /\ UNCHANGED <<write_buff, txSent>>
               ELSE /\ write_buff' = Tail(write_buff)
                    /\ txSent' = Append(txSent, Head(write_buff))
                    /\ UNCHANGED run
            /\ UNCHANGED halted
    /\ UNCHANGED <<driverRef, handle, fifo_lock, stream_lock, stream, fut, rxVars, txSeq,
                   ret, txFreed, wbLock, draining, pend, woke, runPc, dmaVars, prdVars, extVars>>
    /\ UNCHANGED lastLock

\* run() is spawned and reaches its first upgrade()
RunStart ==
    /\ ~halted
    /\ runPc = "idle"
    /\ runPc' = IF PortAlive THEN "await" ELSE "stopped"
    /\ UNCHANGED <<driverRef, handle, fifo_lock, stream_lock, stream, fut, rxVars, txVars,
                   ret, txFreed, wbLock, draining, pend, woke, hwEvent,
                   dmaVars, prdVars, extVars, halted>>
    /\ UNCHANGED lastLock

WakeIgnoresDraining(len, valid, quota, drain) == len > valid /\ valid < quota
\* run(): pop_front is reached when there was completed space to free, the
\* occupancy left by free() is under the quota, and draining was clear
WakeReached(len, valid, quota, drain) == len > valid /\ valid < quota /\ ~drain

\* run(): whether draining.swap(true) is executed, which needs no empty flag
SwapReached(len, valid, quota) == len > valid /\ valid < quota

\* one iteration of run(): from the hardware-ready event to the next await, or
\* to the return when the next upgrade() fails
RunIter ==
    /\ ~halted
    /\ runPc = "await"
    /\ hwEvent
    /\ stream' = 0
    /\ IF wbLock # 0
       THEN \* r.write_buff.lock() spins with interrupts masked
            /\ halted' = TRUE
            /\ hwEvent' = FALSE
            /\ woke' = -1
            /\ UNCHANGED <<rxVars, run, write_buff, txFreed, draining, pend, runPc>>
       ELSE LET len == Occupancy
                valid == Len(write_buff)
                reached == WakeReached(len, valid, Quota, draining)
            IN  /\ draining' = (draining \/ SwapReached(len, valid, Quota))
                /\ woke' = IF ~reached THEN -1
                           ELSE IF pend = <<>> THEN 0 ELSE Head(pend)
                /\ pend' = IF reached /\ pend # <<>> THEN Tail(pend) ELSE pend
                /\ IF driverRef \/ WriteHolders # {}
                   THEN /\ runPc' = "await"
                        /\ txFreed' = Len(txSent)
                        /\ hwEvent' = FALSE
                        /\ UNCHANGED <<rxVars, run, write_buff>>
                   ELSE \* r was the last strong reference: the next upgrade() fails
                        /\ runPc' = "stopped"
                        /\ SerialFreed
                        /\ UNCHANGED rxSeq
                /\ UNCHANGED halted
    /\ UNCHANGED <<driverRef, handle, fifo_lock, stream_lock, fut, txSent, txSeq, ret,
                   wbLock, dmaVars, prdVars, extVars>>
    /\ lastLock' = LockAt("run")

(* ======================================================= MMIO allocator *)
VPages == 0..(MaxVPages - 1)
\* the pages of the page table: the allocatable ones and the one after them
PtPages == 0..MaxVPages
MmioOffsets == {0, 1, PAGE_SIZE - 1}
MmioAddrs == {8 * PAGE_SIZE + o : o \in MmioOffsets}
LayoutSizes == {1, 2, PAGE_SIZE, PAGE_SIZE + 1}

NoMap == [frame |-> -1, flags |-> {}]
SetMin(S) == CHOOSE x \in S : \A y \in S : x <= y

\* virt_allocate hands out the layout's size rounded up to whole pages
PagesFor(size) == (size + PAGE_SIZE - 1) \div PAGE_SIZE
UsedPages == UNION {r.base..(r.base + r.n - 1) : r \in virtRanges}
\* the page-aligned ranges of n pages virt_allocate can return
FreeBases(n) ==
    {b \in VPages : (b + n - 1) \in VPages /\ (b..(b + n - 1)) \cap UsedPages = {}}

\* a page range that also counts the physical address's offset in its page
PageRangeWithOffset(size, ptr) ==
    [start |-> ptr \div PAGE_SIZE,
     end |-> (ptr + (mmioAddr % PAGE_SIZE) + size - 1) \div PAGE_SIZE]
\* MmioAlloc::get_page_range: the pages from ptr's to that of ptr + size - 1
get_page_range(size, ptr) ==
    [start |-> ptr \div PAGE_SIZE, end |-> (ptr + size - 1) \div PAGE_SIZE]

\* MmioAlloc::offset_addr
offset_addr(ptr) == ptr + (mmioAddr % PAGE_SIZE)

\* the flags allocate maps with
MmioFlags == {"PRESENT", "WRITABLE", "NO_EXECUTE"}

\* allocate's loop: map_to(page, frame, flags).unwrap() page by page, the frame
\* advancing by one page; unwrap panics at the first page already mapped
MapPages(pt, r, frame0) ==
    LET bad == {p \in r.start..r.end : pt[p] # NoMap}
        firstBad == IF bad = {} THEN r.end + 1 ELSE SetMin(bad)
    IN  [pt |-> [p \in DOMAIN pt |->
                    IF p \in r.start..(firstBad - 1)
                    THEN [frame |-> frame0 + (p - r.start), flags |-> MmioFlags]
                    ELSE pt[p]],
         panic |-> bad # {}]

\* deallocate's loop: unmap(page).expect(..) page by page; expect panics at the
\* first page that is not mapped
UnmapPages(pt, r) ==
    LET bad == {p \in r.start..r.end : p \notin DOMAIN pt \/ pt[p] = NoMap}
        firstBad == IF bad = {} THEN r.end + 1 ELSE SetMin(bad)
    IN  [pt |-> [p \in DOMAIN pt |-> IF p \in r.start..(firstBad - 1) THEN NoMap ELSE pt[p]],
         panic |-> bad # {}]

MmioRet(op, res, ptr) == [op |-> op, res |-> res, ptr |-> ptr]

MmioIdle ==
    /\ mmioAddr = 0
    /\ pageTable = [p \in PtPages |-> NoMap]
    /\ virtRanges = {}
    /\ mmioLive = {}
    /\ mmioRet = MmioRet("new", "Ok", 0)

\* MmioAlloc::new
MmioInit ==
    /\ mmioAddr \in MmioAddrs
    /\ pageTable = [p \in PtPages |-> NoMap]
    /\ virtRanges = {}
    /\ mmioLive = {}
    /\ mmioRet = MmioRet("new", "Ok", 0)


VirtAllocUnwrap == "panic"
\* allocate: `virt_allocate(layout)?` returns the allocation error to the caller
VirtAllocFailure == "AllocError"

\* Allocator::allocate, also as called by boxed_alloc
AllocateAs(op, size) ==
    /\ ~halted
    /\ LET n == PagesFor(size) IN
       IF FreeBases(n) = {}
       THEN /\ mmioRet' = MmioRet(op, VirtAllocFailure, 0)
            /\ halted' = (VirtAllocFailure = "panic")
            /\ UNCHANGED <<pageTable, virtRanges, mmioLive>>
       ELSE \E b \in FreeBases(n) :
            LET ptr == b * PAGE_SIZE
                m == MapPages(pageTable, get_page_range(size, ptr), mmioAddr \div PAGE_SIZE)
            IN  /\ virtRanges' = virtRanges \cup {[base |-> b, n |-> n]}
                /\ pageTable' = m.pt
                /\ IF m.panic
                   THEN /\ halted' = TRUE
                        /\ mmioRet' = MmioRet(op, "panic", 0)
                        /\ UNCHANGED mmioLive
                   ELSE /\ mmioLive' = mmioLive \cup {[ptr |-> offset_addr(ptr), size |-> size]}
                        /\ mmioRet' = MmioRet(op, "Ok", offset_addr(ptr))
                        /\ UNCHANGED halted
    /\ UNCHANGED <<mmioAddr, dmaVars, prdVars, serVars, bfaVars, fcVars>>

Allocate(size) == AllocateAs("allocate", size)
\* MmioAlloc::boxed_alloc
BoxedAlloc(size) == AllocateAs("boxed_alloc", size)

\* Allocator::deallocate of a pointer allocate returned, with the same layout
Deallocate(a) ==
    /\ ~halted
    /\ a \in mmioLive
    /\ LET u == UnmapPages(pageTable, get_page_range(a.size, a.ptr))
           base == (a.ptr - (a.ptr % PAGE_SIZE)) \div PAGE_SIZE
       IN  /\ pageTable' = u.pt
           /\ mmioLive' = mmioLive \ {a}
           /\ IF u.panic
              THEN /\ halted' = TRUE
                   /\ mmioRet' = MmioRet("deallocate", "panic", a.ptr)
                   /\ UNCHANGED virtRanges
              ELSE /\ virtRanges' = virtRanges \ {[base |-> base, n |-> PagesFor(a.size)]}
                   /\ mmioRet' = MmioRet("deallocate", "Ok", a.ptr)
                   /\ UNCHANGED halted
    /\ UNCHANGED <<mmioAddr, dmaVars, prdVars, serVars, bfaVars, fcVars>>

ZeroedReturnsError == "AllocError"
\* allocate_zeroed and grow_zeroed: panic!(..) is the whole body
ZeroedResult == "panic"

\* Allocator::allocate_zeroed
AllocateZeroed(size) ==
    /\ ~halted
    /\ mmioRet' = MmioRet("allocate_zeroed", ZeroedResult, 0)
    /\ halted' = (ZeroedResult = "panic")
    /\ UNCHANGED <<mmioAddr, pageTable, virtRanges, mmioLive, dmaVars, prdVars, serVars,
                   bfaVars, fcVars>>

\* Allocator::grow_zeroed
GrowZeroed(a, size) ==
    /\ ~halted
    /\ a \in mmioLive
    /\ mmioRet' = MmioRet("grow_zeroed", ZeroedResult, a.ptr)
    /\ halted' = (ZeroedResult = "panic")
    /\ UNCHANGED <<mmioAddr, pageTable, virtRanges, mmioLive, dmaVars, prdVars, serVars,
                   bfaVars, fcVars>>

\* the free page-aligned ranges of n pages once `ranges` are handed out
FreeBasesIn(ranges, n) ==
    LET used == UNION {r.base..(r.base + r.n - 1) : r \in ranges}
    IN  {b \in VPages : (b + n - 1) \in VPages /\ (b..(b + n - 1)) \cap used = {}}

\* the layout grow and shrink pass to deallocate
RegrowFreesNew(old, new) == new
RegrowFrees(old, new) == old

\* Allocator::grow and Allocator::shrink: self.deallocate(ptr, old_layout), then
\* self.allocate(new_layout); nothing is copied. The callers keep the trait's
\* contract: grow to a size no smaller, shrink to a size no larger.
Regrow(op, a, size) ==
    /\ ~halted
    /\ a \in mmioLive
    /\ IF op = "grow" THEN size >= a.size ELSE size <= a.size
    /\ LET freed == RegrowFrees(a.size, size)
           u == UnmapPages(pageTable, get_page_range(freed, a.ptr))
           base == (a.ptr - (a.ptr % PAGE_SIZE)) \div PAGE_SIZE
           ranges == virtRanges \ {[base |-> base, n |-> PagesFor(freed)]}
           n == PagesFor(size)
       IN  IF u.panic
           THEN \* deallocate panicked in its unmap loop
                /\ halted' = TRUE
                /\ pageTable' = u.pt
                /\ mmioLive' = mmioLive \ {a}
                /\ mmioRet' = MmioRet(op, "panic", a.ptr)
                /\ UNCHANGED virtRanges
           ELSE IF FreeBasesIn(ranges, n) = {}
           THEN \* virt_allocate(new_layout)? fails after the old block is gone
                /\ pageTable' = u.pt
                /\ virtRanges' = ranges
                /\ mmioLive' = mmioLive \ {a}
                /\ mmioRet' = MmioRet(op, VirtAllocFailure, 0)
                /\ halted' = (VirtAllocFailure = "panic")
           ELSE \E b \in FreeBasesIn(ranges, n) :
                LET ptr == b * PAGE_SIZE
                    m == MapPages(u.pt, get_page_range(size, ptr), mmioAddr \div PAGE_SIZE)
                IN  /\ virtRanges' = ranges \cup {[base |-> b, n |-> n]}
                    /\ pageTable' = m.pt
                    /\ IF m.panic
                       THEN /\ halted' = TRUE
                            /\ mmioRet' = MmioRet(op, "panic", 0)
                            /\ mmioLive' = mmioLive \ {a}
                       ELSE /\ mmioLive' = (mmioLive \ {a})
                                              \cup {[ptr |-> offset_addr(ptr), size |-> size]}
                            /\ mmioRet' = MmioRet(op, "Ok", offset_addr(ptr))
                            /\ UNCHANGED halted
    /\ UNCHANGED <<mmioAddr, dmaVars, prdVars, serVars, bfaVars, fcVars>>

\* Allocator::grow
Grow(a, size) == Regrow("grow", a, size)
\* Allocator::shrink
Shrink(a, size) == Regrow("shrink", a, size)

(* ================================================= boot frame allocator *)
None == -1
RegionKinds == {"Usable", "Bootloader"}
\* the memory regions the bootloader reports: page-aligned [start, end)
Regions ==
    {[kind |-> k, start |-> a * PAGE_SIZE, end |-> b * PAGE_SIZE] :
        k \in RegionKinds, a \in 0..MaxMemPages, b \in 0..MaxMemPages}
Overlap(r, q) == r.start < q.end /\ q.start < r.end
\* the memory maps: up to MaxRegions regions, in any order, none overlapping
MemoryMaps ==
    {m \in UNION {[1..n -> Regions] : n \in 0..MaxRegions} :
        /\ \A i \in DOMAIN m : m[i].start <= m[i].end
        /\ \A i, j \in DOMAIN m : i # j => ~Overlap(m[i], m[j])}

FeedsAnyKind(kind) == TRUE
\* usable_frames: filter(|r| r.kind == MemoryRegionKind::Usable)
FeedsFrames(kind) == kind = "Usable"

\* (r.start..r.end).step_by(4096), each address mapped to the frame containing it
RegionFrames(r) ==
    LET count == IF r.end > r.start
                 THEN (r.end - r.start + (PAGE_SIZE - 1)) \div PAGE_SIZE ELSE 0
    IN  [i \in 1..count |-> (r.start + (i - 1) * PAGE_SIZE) \div PAGE_SIZE]

RECURSIVE usable_frames(_)
\* BootInfoFrameAllocator::usable_frames
usable_frames(map) ==
    IF map = <<>> THEN <<>>
    ELSE (IF FeedsFrames(Head(map).kind) THEN RegionFrames(Head(map)) ELSE <<>>)
         \o usable_frames(Tail(map))

BfaIdle ==
    /\ memory_map = <<>>
    /\ bfaNext = 0
    /\ bfaOut = <<>>

\* BootInfoFrameAllocator::init
BfaInit ==
    /\ memory_map \in MemoryMaps
    /\ bfaNext = 0
    /\ bfaOut = <<>>

\* FrameAllocator::allocate_frame
AllocateFrame ==
    /\ ~halted
    /\ bfaNext < MaxFrameCalls
    /\ LET frames == usable_frames(memory_map)
           frame == IF bfaNext < Len(frames) THEN frames[bfaNext + 1] ELSE None
       IN  bfaOut' = Append(bfaOut, frame)
    /\ bfaNext' = bfaNext + 1
    /\ UNCHANGED <<memory_map, dmaVars, prdVars, serVars, mmioVars, fcVars, halted>>

(* =================================================== frame-control file *)
\* Text is a sequence of characters, each a string naming one character:
\* "eacute" is a character of two bytes, "0xFF" a byte that is no UTF-8
DigitChars == <<"0", "1", "2", "3", "4", "5", "6", "7", "8", "9">>
IsDigit(c) == \E i \in DOMAIN DigitChars : DigitChars[i] = c
DigitVal(c) == (CHOOSE i \in DOMAIN DigitChars : DigitChars[i] = c) - 1
ByteLen(c) == IF c = "eacute" THEN 2 ELSE 1

RECURSIVE Bytes(_)
\* str::len / <[u8]>::len: the length in bytes
Bytes(t) == IF t = <<>> THEN 0 ELSE ByteLen(Head(t)) + Bytes(Tail(t))

\* core::str::from_utf8(buff) succeeds
Utf8Ok(t) == \A i \in DOMAIN t : t[i] # "0xFF"

\* s.find('-'): the position of the first hyphen, 0 for None
FindHyphen(t) ==
    IF \E i \in DOMAIN t : t[i] = "-"
    THEN SetMin({i \in DOMAIN t : t[i] = "-"})
    ELSE 0

RECURSIVE DecimalValue(_)
DecimalValue(t) ==
    IF t = <<>> THEN 0
    ELSE DecimalValue(SubSeq(t, 1, Len(t) - 1)) * 10 + DigitVal(t[Len(t)])

\* baud_rate.parse::<u32>(): an optional '+', then one or more digits; -1 for
\* Err.  The texts drawn here have at most seven digits, below u32::MAX.
ParseU32(t) ==
    LET digits == IF t # <<>> /\ t[1] = "+" THEN Tail(t) ELSE t
    IN  IF digits = <<>> \/ \E i \in DOMAIN digits : ~IsDigit(digits[i])
        THEN -1
        ELSE DecimalValue(digits)

RECURSIVE Decimal(_)
\* Display of an unsigned integer
Decimal(n) ==
    IF n < 10 THEN <<DigitChars[n + 1]>>
    ELSE Decimal(n \div 10) \o <<DigitChars[(n % 10) + 1]>>

\* div_high & u16::MAX, with div_high = (115200 << 16) / tgt in u64: the
\* fraction (115200 % tgt) / tgt in 16 fractional bits, floor(r * 65536 / tgt),
\* computed a byte at a time so that no intermediate exceeds 115199 * 256
DivLowBits(tgt) ==
    LET r == BaseClock % tgt
        hi == (r * 256) \div tgt
        lo == (((r * 256) % tgt) * 256) \div tgt
    IN  hi * 256 + lo

RoundsNever(low) == FALSE
\* if div_high & u16::MAX as u64 > (u16::MAX/2) as u64
RoundsUp(low) == low > U16Max \div 2

\* the divisor block of write(): div_high >> 16 is 115200 / tgt
RoundedDivisor(tgt) ==
    IF RoundsUp(DivLowBits(tgt))
    THEN (BaseClock \div tgt) + 1
    ELSE BaseClock \div tgt

\* char::to_ascii_uppercase on the letters drawn here
to_ascii_uppercase(c) ==
    CASE c = "n" -> "N" [] c = "o" -> "O" [] c = "m" -> "M"
      [] c = "e" -> "E" [] c = "s" -> "S" [] c = "x" -> "X"
      [] OTHER -> c

\* the three matches of write() on the frame characters; "" for the _ arm
DataBitsOf(c) ==
    CASE c = "5" -> "Five" [] c = "6" -> "Six" [] c = "7" -> "Seven"
      [] c = "8" -> "Eight" [] OTHER -> ""
ParityOf(c) ==
    CASE to_ascii_uppercase(c) = "N" -> "None"
      [] to_ascii_uppercase(c) = "O" -> "Odd"
      [] to_ascii_uppercase(c) = "M" -> "Mark"
      [] to_ascii_uppercase(c) = "E" -> "Even"
      [] to_ascii_uppercase(c) = "S" -> "Space"
      [] OTHER -> ""
StopBitsOf(c) == CASE c = "1" -> "One" [] c = "2" -> "Two" [] OTHER -> ""

\* u8::from(DataBits), char::from(Parity), StopBits as u8
DataBitsU8(b) ==
    CASE b = "Five" -> 5 [] b = "Six" -> 6 [] b = "Seven" -> 7 [] b = "Eight" -> 8
ParityChar(p) ==
    CASE p = "None" -> "N" [] p = "Odd" -> "O" [] p = "Mark" -> "M"
      [] p = "Even" -> "E" [] p = "Space" -> "S"
StopBitsU8(st) == CASE st = "One" -> 0 [] st = "Two" -> 1

FcRet(op, res, text, n) == [op |-> op, res |-> res, text |-> text, n |-> n]

\* the port as Serial::new leaves it: 115200-8N1
FcIdle ==
    /\ divisor = 1
    /\ bits = "Eight"
    /\ parity = "None"
    /\ stop = "One"
    /\ fcRet = FcRet("new", "Ok", <<>>, 0)

\* Write for FrameCtlBFile::write up to the upgrade of the port: what the
\* validation of buff decides, and the configuration it has parsed
FrameCtlParse(buff) ==
    LET at == FindHyphen(buff)
        baud_rate == IF at = 0 THEN -1 ELSE ParseU32(SubSeq(buff, 1, at - 1))
        frame == IF at = 0 THEN <<>> ELSE SubSeq(buff, at, Len(buff))
        div == IF baud_rate > 0 THEN RoundedDivisor(baud_rate) ELSE 0
        frame_fmt == IF frame = <<>> THEN <<>> ELSE Tail(frame)   \* chars().skip(1)
        cfg == [div |-> div,
                bits |-> IF Len(frame_fmt) >= 1 THEN DataBitsOf(frame_fmt[1]) ELSE "",
                parity |-> IF Len(frame_fmt) >= 2 THEN ParityOf(frame_fmt[2]) ELSE "",
                stop |-> IF Len(frame_fmt) >= 3 THEN StopBitsOf(frame_fmt[3]) ELSE ""]
        res ==
            IF ~Utf8Ok(buff) THEN "InvalidData"
            ELSE IF at = 0 THEN "InvalidData"
            ELSE IF baud_rate = -1 THEN "InvalidData"
            ELSE IF baud_rate > MaxBaud THEN "InvalidData"
            ELSE IF baud_rate = 0 THEN "panic"          \* clock_rate / tgt
            ELSE IF div > U16Max THEN "InvalidData"     \* div.try_into()
            ELSE IF Bytes(frame) # 4 THEN "InvalidData"
            ELSE IF Len(frame_fmt) # 3 THEN "InvalidData"
            ELSE IF cfg.bits = "" THEN "InvalidData"
            ELSE IF cfg.parity = "" THEN "InvalidData"
            ELSE IF cfg.stop = "" THEN "InvalidData"
            ELSE "Ok"
    IN  [res |-> res, cfg |-> cfg]

CommitsBeforeUpgrade(res) == res \in {"Ok", "MediaError"}
\* set_char_mode and set_divisor are the last statements before Ok(buff.len()):
\* they run only when every check and the upgrade have passed
Commits(res) == res = "Ok"

\* Write for FrameCtlBFile::write
FrameCtlWrite(buff) ==
    /\ ~halted
    /\ LET parsed == FrameCtlParse(buff)
           res == IF parsed.res = "Ok" /\ ~PortAlive THEN "MediaError" ELSE parsed.res
       IN  /\ fcRet' = FcRet("write", res, buff, IF res = "Ok" THEN Bytes(buff) ELSE 0)
           /\ halted' = (res = "panic")
           /\ IF Commits(res)
              THEN /\ divisor' = parsed.cfg.div
                   /\ bits' = parsed.cfg.bits
                   /\ parity' = parsed.cfg.parity
                   /\ stop' = parsed.cfg.stop
              ELSE UNCHANGED <<divisor, bits, parity, stop>>
    /\ UNCHANGED <<dmaVars, prdVars, serVars, mmioVars, bfaVars>>

StopTextRaw(st) == Decimal(StopBitsU8(st))
\* "{stop}" with stop = real.stop as u8 + 1
StopText(st) == Decimal(StopBitsU8(st) + 1)

\* "{b_rate:.0}" with b_rate = 115200f32 / divisor as f32: the quotient to the
\* nearest integer, an exact half to the even one.  The f32 quotient is within
\* 0.007 / d of 115200 / d, and 115200 / d is an integer, an exact half, or at
\* least 0.5 / d away from one, so the rounding of the f32 is that of the ratio.
BaudText(d) ==
    LET q == BaseClock \div d
        r == BaseClock % d
    IN  IF d = 0 THEN <<"i", "n", "f">>
        ELSE IF 2 * r < d THEN Decimal(q)
        ELSE IF 2 * r > d THEN Decimal(q + 1)
        ELSE IF q % 2 = 0 THEN Decimal(q) ELSE Decimal(q + 1)

\* "{b_rate:.0}-{data_bits}{parity}{stop}"
ModeText ==
    BaudText(divisor) \o <<"-">> \o Decimal(DataBitsU8(bits))
        \o <<ParityChar(parity)>> \o StopText(stop)

\* Read for FrameCtlBFile::read with a buffer of len bytes
FrameCtlRead(len) ==
    /\ ~halted
    /\ LET res == IF ~PortAlive THEN "MediaError"
                  ELSE IF Bytes(ModeText) > len THEN "EndOfFile"   \* write! fails
                  ELSE IF len < ReadWindow THEN "panic"            \* buff[..10]
                  ELSE "Ok"
       IN  /\ fcRet' = FcRet("read", res,
                             IF res = "Ok" THEN ModeText ELSE <<>>,
                             CASE res = "Ok" -> Bytes(ModeText)
                               [] res = "EndOfFile" -> len
                               [] OTHER -> 0)
           /\ halted' = (res = "panic")
    /\ UNCHANGED <<divisor, bits, parity, stop, dmaVars, prdVars, serVars, mmioVars,
                   bfaVars>>

\* the texts written to the file: a baud part, a hyphen, a frame part, and
\* texts with no hyphen or with a byte that is no UTF-8
Nine600 == <<"9", "6", "0", "0">>
BaudTexts ==
    {<<"0">>, <<"1">>, <<"2">>, <<"7">>, Nine600,
     <<"5", "7", "6", "0", "0">>, <<"1", "1", "5", "2", "0", "0">>,
     <<"1", "1", "5", "2", "0", "1">>, <<"+", "9", "6", "0", "0">>,
     <<"0", "9", "6", "0", "0">>, <<"9", "6", "x">>, <<>>,
     <<"1", "1">>, <<"7", "6", "8", "0", "0">>}
FrameTexts ==
    {<<"8", "N", "1">>, <<"5", "e", "2">>, <<"7", "O", "1">>, <<"6", "m", "2">>,
     <<"8", "s", "1">>, <<"9", "N", "1">>, <<"8", "x", "1">>, <<"8", "N", "3">>,
     <<"8", "N">>, <<"8", "N", "1", "1">>, <<"8", "eacute">>}
FrameCtlInputs ==
    {b \o <<"-", "8", "N", "1">> : b \in BaudTexts}
        \cup {Nine600 \o <<"-">> \o f : f \in FrameTexts}
        \cup {<<"2", "-", "6", "m", "2">>, <<"7", "-", "5", "e", "2">>,
              <<"1", "1", "5", "2", "0", "0", "-", "7", "O", "1">>,
              <<"0", "-", "9", "N", "1">>, <<"1", "-", "8", "N">>,
              <<"9", "6", "0", "0", "8", "N", "1">>,
              <<"9", "6", "0", "0", "-", "8", "N", "0xFF">>,
              <<"0xFF", "-", "8", "N", "1">>, <<>>}
BuffLens == {0, 7, 8, 9, 10, 11}

ExtIdle == MmioIdle /\ BfaIdle /\ FcIdle

(* ====================================================== specifications *)
InitDma == DmaInit /\ PrdIdle /\ SerialInit /\ ExtIdle /\ halted = FALSE
NextDma == \E g \in Guards :
              Claim(g) \/ DropView(g) \/ Unwrap(g) \/ DropGuard(g) \/ QueryOwned(g)
SpecDma == InitDma /\ [][NextDma]_vars

InitTarget == TargetInit /\ SerialInit /\ ExtIdle /\ halted = FALSE
\* the guards that wrap a buffer of at least one byte
Wrapping == {g \in Guards : dmaBuf[g].len > 0}
NextTarget ==
    \/ \E g \in Wrapping : Claim(g) \/ DropView(g)
    \/ \E kind \in {"guard", "view"}, g \in Wrapping : Prd(kind, g)
    \/ PrdNext
SpecTarget == InitTarget /\ [][NextTarget]_vars

InitPrd == DmaInit /\ PrdInit /\ SerialInit /\ ExtIdle /\ halted = FALSE
NextPrd == PrdNext
SpecPrd == InitPrd /\ [][NextPrd]_vars

InitSerial == DmaInit /\ PrdIdle /\ SerialInit /\ ExtIdle /\ halted = FALSE
NextSerial ==
    \/ \E h, h2 \in Handles : CloneFile(h, h2)
    \/ \E h \in Handles, m \in Modes : Open(h, m)
    \/ \E h \in Handles : Close(h) \/ DropHandle(h) \/ WriteSync(h)
    \/ \E h \in Handles, n \in 0..MaxBuf : Read(h, n)
    \/ \E h \in Handles : Poll(h) \/ DropFut(h)
    \/ RxByte
    \/ LineIdle
    \/ DriverDrop
SpecSerial == InitSerial /\ [][NextSerial]_vars

\* the handles and their locks alone: no read is started
NextSerialOpen ==
    \/ \E h, h2 \in Handles : CloneFile(h, h2)
    \/ \E h \in Handles, m \in Modes : Open(h, m)
    \/ \E h \in Handles : Close(h) \/ DropHandle(h) \/ WriteSync(h)
    \/ DriverDrop
SpecSerialOpen == InitSerial /\ [][NextSerialOpen]_vars

\* the receive path: nothing is written
NextSerialRead ==
    \/ \E h, h2 \in Handles : CloneFile(h, h2)
    \/ \E h \in Handles, m \in Modes : Open(h, m)
    \/ \E h \in Handles : Close(h) \/ DropHandle(h)
    \/ \E h \in Handles, n \in 0..MaxBuf : Read(h, n)
    \/ \E h \in Handles : Poll(h) \/ DropFut(h)
    \/ RxByte
    \/ LineIdle
    \/ DriverDrop
SpecSerialRead == InitSerial /\ [][NextSerialRead]_vars

\* the transmit path: writes, the hardware-ready interrupt and the run task
NextSerialWrite ==
    \/ \E h, h2 \in Handles : CloneFile(h, h2)
    \/ \E h \in Handles, m \in Modes : Open(h, m)
    \/ \E h \in Handles : Close(h)
    \/ \E h \in Handles, n \in 1..MaxTx : Write(h, n)
    \/ \E h \in Handles : WriteDone(h) \/ DropWrite(h)
    \/ HwReady
    \/ RunStart
    \/ RunIter
    \/ DriverDrop
SpecSerialWrite == InitSerial /\ [][NextSerialWrite]_vars

\* reads and writes on handles in every mode
NextSerialMode ==
    \/ \E h, h2 \in Handles : CloneFile(h, h2)
    \/ \E h \in Handles, m \in Modes : Open(h, m)
    \/ \E h \in Handles : Close(h)
    \/ \E h \in Handles, n \in 1..MaxBuf : Read(h, n)
    \/ \E h \in Handles : DropFut(h)
    \/ \E h \in Handles, n \in 1..MaxTx : Write(h, n)
    \/ \E h \in Handles : DropWrite(h)
    \/ RxByte
    \/ DriverDrop
SpecSerialMode == InitSerial /\ [][NextSerialMode]_vars

InitMmio ==
    DmaInit /\ PrdIdle /\ SerialInit /\ MmioInit /\ BfaIdle /\ FcIdle /\ halted = FALSE
NextMmio ==
    \/ \E size \in LayoutSizes : Allocate(size) \/ BoxedAlloc(size) \/ AllocateZeroed(size)
    \/ \E a \in mmioLive : Deallocate(a)
    \/ \E a \in mmioLive, size \in LayoutSizes : GrowZeroed(a, size)
    \/ \E a \in mmioLive, size \in LayoutSizes : Grow(a, size) \/ Shrink(a, size)
SpecMmio == InitMmio /\ [][NextMmio]_vars

InitBfa ==
    DmaInit /\ PrdIdle /\ SerialInit /\ MmioIdle /\ BfaInit /\ FcIdle /\ halted = FALSE
NextBfa == AllocateFrame
SpecBfa == InitBfa /\ [][NextBfa]_vars

InitFrameCtl ==
    DmaInit /\ PrdIdle /\ SerialInit /\ MmioIdle /\ BfaIdle /\ FcIdle /\ halted = FALSE
NextFrameCtl ==
    \/ \E buff \in FrameCtlInputs : FrameCtlWrite(buff)
    \/ \E len \in BuffLens : FrameCtlRead(len)
    \/ DriverDrop
SpecFrameCtl == InitFrameCtl /\ [][NextFrameCtl]_vars

(* ============================================================== claims *)

\* C1: at most one claimed view of a guard is live at any time, and claim()
\* returns a view exactly when no view of the guard is outstanding: the first
\* claim on a fresh guard succeeds, and every claim made while a view is live
\* returns None.
C1_SingleLiveClaim ==
    /\ [](\A g \in Guards : views[g] <= 1)
    /\ [][\A g \in Guards :
            Claim(g) => (dmaRet'.res = "Some" <=> views[g] = 0)]_vars

C1_Witness ==
    \E g \in Guards :
        dmaRet = [op |-> "claim", g |-> g, res |-> "None"] /\ views[g] = 1

\* C2: a guard dropped while a claimed view of it is live leaves the inner
\* buffer allocated (leaked), so while a view is live the buffer is never freed
\* nor handed back.
C2_ClaimedDropLeaks ==
    /\ [](\A g \in Guards : views[g] > 0 => inner[g] \in {"held", "leaked"})
    /\ [][\A g \in Guards :
            (DropGuard(g) /\ views[g] > 0) => inner'[g] = "leaked"]_vars

C2_Witness ==
    \E g \in Guards : guard[g] = "dropped" /\ views[g] = 1 /\ inner[g] = "leaked"

\* C3: unwrap() on a guard with a live claim panics and the buffer stays with
\* the guard; unwrap() on a guard with no live claim returns the buffer.
C3_UnwrapClaimedPanics ==
    [][\A g \in Guards :
          Unwrap(g) =>
              IF views[g] > 0
              THEN halted' /\ dmaRet'.res = "panic" /\ inner'[g] = "held"
              ELSE ~halted' /\ dmaRet'.res = "buffer" /\ inner'[g] = "returned"]_vars

C3_Witness ==
    \E g \in Guards :
        halted /\ dmaRet = [op |-> "unwrap", g |-> g, res |-> "panic"] /\ views[g] = 1

\* C4: dropping the claimed view clears the shared flag and leaves no view, and
\* on a guard that has been through a claim and its release a new claim()
\* succeeds and unwrap() returns the buffer without panicking, however many
\* cycles came before.
C4_ViewDropRestoresOwned ==
    [][\A g \in Guards :
          /\ DropView(g) => (~flag'[g] /\ views'[g] = 0)
          /\ (claims[g] >= 1 /\ views[g] = 0 /\ Claim(g)) =>
                 (dmaRet'.res = "Some" /\ views'[g] = 1)
          /\ (claims[g] >= 1 /\ views[g] = 0 /\ Unwrap(g)) =>
                 (~halted' /\ inner'[g] = "returned")]_vars

C4_Witness ==
    \E g \in Guards :
        /\ claims[g] >= 2 /\ views[g] = 0 /\ guard[g] = "alive"
        /\ dmaRet = [op |-> "drop_view", g |-> g, res |-> "unit"]

RECURSIVE SumSizes(_)
SumSizes(s) == IF s = <<>> THEN 0 ELSE Head(s).size + SumSizes(Tail(s))

\* C5: when the describer is exhausted, the sizes of the chunks it yielded sum
\* to exactly the buffer length.
C5_SizesSumToLen == prdState = "done" => SumSizes(prdChunks) = prdLen

\* buffer indices inside chunk c (after its first byte) that start a page
InnerPageStarts(c) ==
    {i \in {v * PAGE_SIZE - prdOff : v \in 1..NPages(prdLen, prdOff)} :
        c.start < i /\ i < c.start + c.size /\ i < prdLen}

\* C6: every yielded chunk is physically contiguous, and a chunk that ends
\* before the end of the buffer ends at a page boundary across which the
\* physical addresses are not contiguous.
C6_ChunksContiguous ==
    \A k \in 1..Len(prdChunks) :
        LET c == prdChunks[k]
            end == c.start + c.size
        IN /\ c.addr = translate_ptr(c.start)
           /\ \A i \in InnerPageStarts(c) : translate_ptr(i) = c.addr + (i - c.start)
           /\ end < prdLen =>
                 /\ (prdOff + end) % PAGE_SIZE = 0
                 /\ translate_ptr(end) # translate_ptr(end - 1) + 1

\* the handles that exist and are open for reading / for writing
Readers == {h \in Handles : handle[h] /\ IsRead(fifo_lock[h])}
Writers == {h \in Handles : handle[h] /\ IsWrite(fifo_lock[h])}

\* C7: at any time at most one handle, across all clones of one dispatcher, is
\* open for reading, under every interleaving of open, close, clone, drop and
\* write_sync.
C7_SingleReader == Cardinality(Readers) <= 1

\* C8: at any time at most one handle, across all clones of one dispatcher, is
\* open for writing.
C8_SingleWriter == Cardinality(Writers) <= 1

\* what the claim allows a poll of the read suspended on handle h to do: complete
\* with the i bytes stored when the buffer is full, or when the line is idle and
\* 0 < i < N; in every other state stay pending with the waker registered
PollAsClaimed(h) ==
    LET i == Len(rx_tgt.data)
        N == fut[h].len
    IN  IF i = N \/ (rx_idle /\ 0 < i /\ i < N)
        THEN fut'[h] = NoFut /\ ret'.res = "Ok" /\ ret'.n = i /\ i > 0
        ELSE fut'[h] = fut[h] /\ ret'.res = "Pending" /\ stream' = h /\ rx_tgt' = rx_tgt

\* C9, as stated: a suspended read into a buffer of size N > 0 completes only
\* when N bytes are stored, or with the first i bytes when the line is idle and
\* 0 < i < N, never with zero bytes; in every other state it stays pending with
\* the caller's waker registered in the stream waker slot.
C9_PollOnlyCompletesWithData ==
    [][\A h \in Handles : (Poll(h) /\ fut[h].len > 0) => PollAsClaimed(h)]_vars

\* C9, amended: while the serial port exists the poll behaves as stated; once
\* the port has been dropped the poll completes the read with MediaError and a
\* byte count of 0 instead of staying pending.
C9_PollCompletion ==
    [][\A h \in Handles : (Poll(h) /\ fut[h].len > 0) =>
            IF PortAlive
            THEN PollAsClaimed(h)
            ELSE fut'[h] = NoFut /\ ret'.res = "MediaError" /\ ret'.n = 0]_vars

\* a poll found the line idle with nothing stored and left the read pending,
\* its waker registered
C9_Witness ==
    \E h \in Handles :
        /\ fut[h].st = "pending" /\ fut[h].len > 0
        /\ PortAlive /\ rx_tgt.owner = h /\ rx_tgt.data = <<>> /\ rx_idle
        /\ ret = Ret("poll", "Pending", 0)
        /\ stream = h

\* C10: with a receive target installed, read() on a handle open for reading
\* fails with Busy and byte count 0 (a handle not open for reading fails with
\* NotReady before the slot is looked at); it consumes no received byte, leaves
\* the installed target unchanged and suspends nothing.
C10_BusyRead ==
    [][\A h \in Handles, n \in 0..MaxBuf :
            (Read(h, n) /\ rx_tgt # NoTarget) =>
                /\ ret'.res = (IF IsRead(fifo_lock[h]) THEN "Busy" ELSE "NotReady")
                /\ ret'.n = 0
                /\ rx_tgt' = rx_tgt
                /\ rxFifo' = rxFifo
                /\ fut' = fut]_vars

\* a read returned Busy while a target was installed and received bytes waited
C10_Witness ==
    /\ ret = Ret("read", "Busy", 0)
    /\ rx_tgt # NoTarget /\ rx_tgt.len > 0
    /\ rxFifo # <<>>

\* C11: when write-buffer occupancy has reached the quota, a further write
\* stays suspended until the run loop frees space: it adds nothing to the buffer
\* and its waker joins the back of the pending-writer queue, from which run
\* wakes writers in registration order.
C11_QuotaSuspendsWrite ==
    [][\A h \in Handles, n \in 1..MaxTx :
            (Write(h, n) /\ fut'[h].st = "write" /\ Occupancy >= Quota) =>
                /\ Occupancy' = Occupancy
                /\ pend' = Append(pend, h)]_vars

C13_NoStrongRefAfterDrop == ~driverRef => runPc # "await"

\* C14: for any physical address and layout, deallocate of a pointer allocate
\* returned, with the same layout, completes without panicking and takes back
\* exactly what the allocate added: the virtual range it was given and the
\* mappings of that range's pages.
C14_AllocDeallocRoundTrip ==
    [][\A a \in mmioLive :
            Deallocate(a) =>
                LET base == a.ptr \div PAGE_SIZE
                    n == PagesFor(a.size)
                IN  /\ ~halted'
                    /\ virtRanges' = virtRanges \ {[base |-> base, n |-> n]}
                    /\ pageTable' = [p \in PtPages |->
                                        IF p \in base..(base + n - 1)
                                        THEN NoMap ELSE pageTable[p]]]_vars

\* C15: every mapping made by allocate carries the present, writable,
\* no-execute and cache-disabled flags.
C15_MappingsUncached ==
    \A p \in PtPages :
        pageTable[p] # NoMap =>
            {"PRESENT", "WRITABLE", "NO_EXECUTE", "NO_CACHE"} \subseteq pageTable[p].flags

\* C16: when no virtual range is left, allocate and boxed_alloc return the
\* allocation error, without panicking and without touching the page table or
\* the virtual ranges.
C16_ExhaustionReturnsError ==
    [][\A size \in LayoutSizes, op \in {"allocate", "boxed_alloc"} :
            (AllocateAs(op, size) /\ FreeBases(PagesFor(size)) = {}) =>
                /\ mmioRet'.res = "AllocError"
                /\ ~halted'
                /\ pageTable' = pageTable
                /\ virtRanges' = virtRanges
                /\ mmioLive' = mmioLive]_vars

\* boxed_alloc found the virtual space used up and returned the error
C16_Witness ==
    /\ mmioRet = MmioRet("boxed_alloc", "AllocError", 0)
    /\ UsedPages = VPages
    /\ ~halted

\* C17: allocate_zeroed and grow_zeroed always panic, and change no page
\* mapping, virtual range or allocation before doing so.
C17_ZeroedAlwaysPanics ==
    [][((\E size \in LayoutSizes : AllocateZeroed(size))
        \/ (\E a \in mmioLive, size \in LayoutSizes : GrowZeroed(a, size))) =>
            /\ halted'
            /\ mmioRet'.res = "panic"
            /\ pageTable' = pageTable
            /\ virtRanges' = virtRanges
            /\ mmioLive' = mmioLive]_vars

\* grow_zeroed was called on a live allocation and panicked
C17_Witness ==
    /\ halted
    /\ mmioRet.op = "grow_zeroed" /\ mmioRet.res = "panic"
    /\ mmioLive # {}

\* the frames of the Usable regions, each with the index of its region
UsableFrames ==
    {<<i, f>> \in (DOMAIN memory_map) \X (0..MaxMemPages) :
        /\ memory_map[i].kind = "Usable"
        /\ memory_map[i].start <= f * PAGE_SIZE
        /\ f * PAGE_SIZE < memory_map[i].end}
\* how many of them come before p in memory-map order
Rank(p) ==
    Cardinality({q \in UsableFrames : q[1] < p[1] \/ (q[1] = p[1] /\ q[2] < p[2])})
\* the k-th frame (k = 0, 1, ..) of that enumeration, or None
KthFrame(k) ==
    IF \E p \in UsableFrames : Rank(p) = k
    THEN (CHOOSE p \in UsableFrames : Rank(p) = k)[2]
    ELSE None

\* C18: the k-th call of allocate_frame returns the k-th frame of the Usable
\* regions in memory-map order, or None when there is none; no frame is
\* returned twice, and after a None every later call returns None.
C18_KthCallKthFrame ==
    /\ \A k \in DOMAIN bfaOut : bfaOut[k] = KthFrame(k - 1)
    /\ \A j, k \in DOMAIN bfaOut : (j # k /\ bfaOut[j] # None) => bfaOut[j] # bfaOut[k]
    /\ \A j, k \in DOMAIN bfaOut : (j < k /\ bfaOut[j] = None) => bfaOut[k] = None

\* a map with a region of another kind first: frames were returned, then the
\* frames ran out and allocate_frame returned None twice
C18_Witness ==
    /\ Len(memory_map) = 2
    /\ memory_map[1].kind # "Usable" /\ memory_map[1].end > memory_map[1].start
    /\ Len(bfaOut) >= 3
    /\ bfaOut[1] # None
    /\ bfaOut[Len(bfaOut) - 1] = None /\ bfaOut[Len(bfaOut)] = None

\* a mode string as the file documents it: a baud rate in decimal digits with
\* no sign and no leading zero that divides 115200, a hyphen, and three frame
\* characters
ValidMode(t) ==
    LET at == FindHyphen(t)
        b == SubSeq(t, 1, at - 1)
    IN  /\ at > 1
        /\ \A i \in DOMAIN b : IsDigit(b[i])
        /\ b[1] # "0"
        /\ BaseClock % DecimalValue(b) = 0
        /\ Len(t) = at + 3
UpperCased(t) == [i \in DOMAIN t |-> to_ascii_uppercase(t[i])]

\* C19: when a write of a valid mode string whose baud rate divides 115200 has
\* been accepted, a read of the file (port present, buffer of ten bytes or more)
\* returns that string with the parity letter in uppercase.
C19_RoundTrip ==
    [][(/\ fcRet.op = "write" /\ fcRet.res = "Ok"
        /\ ValidMode(fcRet.text)
        /\ PortAlive
        /\ \E len \in BuffLens : len >= ReadWindow /\ FrameCtlRead(len))
       => (fcRet'.res = "Ok" /\ fcRet'.text = UpperCased(fcRet.text))]_vars

\* "9600-5e2" was written and read back as "9600-5E2"
C19_Witness ==
    /\ fcRet.op = "read" /\ fcRet.res = "Ok"
    /\ fcRet.text = <<"9", "6", "0", "0", "-", "5", "E", "2">>

\* the form <baud>-<d><p><s> of C20: baud an unsigned integer in [1, 115200],
\* d one of 5..8, p one of NOMES in either case, s one of 1, 2
WellFormed(t) ==
    LET at == FindHyphen(t)
        b == SubSeq(t, 1, at - 1)
        digits == IF b # <<>> /\ b[1] = "+" THEN Tail(b) ELSE b
    IN  /\ Utf8Ok(t)
        /\ at > 1
        /\ digits # <<>>
        /\ \A i \in DOMAIN digits : IsDigit(digits[i])
        /\ DecimalValue(digits) \in 1..MaxBaud
        /\ Len(t) = at + 3
        /\ t[at + 1] \in {"5", "6", "7", "8"}
        /\ t[at + 2] \in {"N", "O", "M", "E", "S", "n", "o", "m", "e", "s"}
        /\ t[at + 3] \in {"1", "2"}

\* C20: with the port present, a frame-control write is accepted exactly when
\* its input is well formed, and every other input fails with InvalidData.
C20_AcceptedIffWellFormed ==
    [][\A buff \in FrameCtlInputs :
          (PortAlive /\ FrameCtlWrite(buff))
              => fcRet'.res = (IF WellFormed(buff) THEN "Ok" ELSE "InvalidData")]_vars

\* C21: a frame-control write that returns InvalidData or MediaError leaves the
\* port's divisor, data bits, parity and stop bits as they were.
C21_FailedWriteKeepsConfig ==
    [][\A buff \in FrameCtlInputs :
          (FrameCtlWrite(buff) /\ fcRet'.res \in {"InvalidData", "MediaError"})
              => UNCHANGED <<divisor, bits, parity, stop>>]_vars

\* the port was set to 9600-5E2, then "9600-8N3" (valid up to its last
\* character) was refused, and then a valid text was refused for the dropped port
C21_Witness ==
    /\ fcRet.op = "write" /\ fcRet.res = "MediaError"
    /\ fcRet.text = <<"2", "-", "6", "m", "2">>
    /\ divisor = 12 /\ bits = "Five" /\ parity = "Even" /\ stop = "Two"

\* C22: read() on a handle not open for Read and write() on a handle not open
\* for Write return NotReady with byte count 0 and leave the receive-target
\* slot, the received bytes, the write buffer and the run flag unchanged.
C22_WrongModeNotReady ==
    [][\A h \in Handles :
          /\ (fifo_lock[h] # "Read" /\ \E n \in 1..MaxBuf : Read(h, n))
                => (/\ ret' = Ret("read", "NotReady", 0)
                    /\ UNCHANGED <<rx_tgt, rxFifo, write_buff, txSent, run>>)
          /\ (fifo_lock[h] # "Write" /\ \E n \in 1..MaxTx : Write(h, n))
                => (/\ ret' = Ret("write", "NotReady", 0)
                    /\ UNCHANGED <<rx_tgt, rxFifo, write_buff, txSent, run>>)]_vars

\* a handle open for Read was written to and refused while a read target was
\* installed and a drain was running
C22_Witness ==
    /\ ret = Ret("write", "NotReady", 0)
    /\ \E h \in Handles : handle[h] /\ fifo_lock[h] = "Read"
    /\ rx_tgt # NoTarget
    /\ run

\* C23: query_owned() returns true exactly when no claimed view of the guard is
\* live, a claim() that follows it succeeds exactly when it returned true, and
\* query_owned() changes nothing.
C23_QueryOwnedTellsOwnership ==
    [][\A g \in Guards :
          /\ QueryOwned(g)
                => (/\ dmaRet'.res = (views[g] = 0)
                    /\ UNCHANGED <<lock, flag, inner, guard, views>>)
          /\ (dmaRet.op = "query_owned" /\ dmaRet.g = g /\ Claim(g))
                => (dmaRet'.res = "Some" <=> dmaRet.res = TRUE)]_vars

\* C24: no write() is suspended while it holds the lock of the write buffer.
C24_NoSuspendHoldingLock ==
    \A h \in Handles : fut[h].st = "write" => wbLock # h

\* C25: every lock the dispatcher takes (write_buff in write and run, rx_tgt in
\* read and poll) is taken with interrupts masked.
C25_LocksTakenMasked == lastLock.masked

\* C26: when the only handle open for Read is closed or dropped, the read lock
\* is released, so that a later open(Read) can succeed.
C26_ReaderCloseReleases ==
    [][\A h \in Handles :
          (/\ handle[h] /\ fifo_lock[h] = "Read"
           /\ \A h2 \in Handles \ {h} : ~(handle[h2] /\ fifo_lock[h2] = "Read")
           /\ (Close(h) \/ DropHandle(h)))
              => ~stream_lock']_vars

\* the slot is installed and no suspended read owns it any more
StaleSlot == rx_tgt # NoTarget /\ \A h \in Handles : fut[h].st # "pending"

\* C27: dropping a suspended read leaves the receive-target slot as it is, and
\* while the slot is stale a read() on a handle open for Read returns Busy.
C27_DroppedReadLeavesSlot ==
    [][\A h \in Handles :
          /\ DropFut(h) => rx_tgt' = rx_tgt
          /\ (StaleSlot /\ IsRead(fifo_lock[h]) /\ \E n \in 0..MaxBuf : Read(h, n))
                => (ret' = Ret("read", "Busy", 0) /\ rx_tgt' = rx_tgt)]_vars

\* a read was refused with Busy because of a slot left by a dropped read
C27_Witness ==
    /\ ret = Ret("read", "Busy", 0)
    /\ StaleSlot

C29_ReadTakesBufferedBytes ==
    [][\A h \in Handles : \A n \in 0..MaxBuf :
          (IsRead(fifo_lock[h]) /\ PortAlive /\ rx_tgt = NoTarget /\ Read(h, n))
              => LET k == Min(Len(rxFifo), n) IN
                 /\ rxFifo' = SubSeq(rxFifo, k + 1, Len(rxFifo))
                 /\ IF k = n
                    THEN ret' = Ret("read", "Ok", n) /\ rx_tgt' = NoTarget
                    ELSE /\ ret' = Ret("read", "Pending", 0)
                         /\ rx_tgt' = [owner |-> h, len |-> n,
                                       data |-> SubSeq(rxFifo, 1, k)]]_vars

\* C30: every chunk the physical region describer yields ends at or before the
\* end of the buffer.
C30_ChunksWithinBuffer ==
    \A i \in DOMAIN prdChunks : prdChunks[i].start + prdChunks[i].size <= prdLen

\* the baud rate of a well-formed text
BaudOf(t) ==
    LET b == SubSeq(t, 1, FindHyphen(t) - 1)
    IN  DecimalValue(IF b[1] = "+" THEN Tail(b) ELSE b)
\* 115200 / b to the nearest integer, an exact half upwards
NearestHalfUp(b) == (2 * BaseClock + b) \div (2 * b)

C40_ReadNeverPanics ==
    [][\A len \in BuffLens :
          (PortAlive /\ FrameCtlRead(len))
              => /\ fcRet'.res # "panic"
                 /\ fcRet'.res = (IF Bytes(ModeText) <= len THEN "Ok" ELSE "EndOfFile")
                 /\ fcRet'.res = "Ok" => (fcRet'.text = ModeText /\ fcRet'.n <= ReadWindow)]_vars

\* C37: over claim, view drop, unwrap and guard drop the wrapped buffer is
\* released at most once: once it is freed, leaked or handed out it is never
\* touched again; dropping a guard with no live view frees it, a successful
\* unwrap hands it to the caller unfreed, and dropping a view leaves it alone.
C37_ReleasedAtMostOnce ==
    [][\A g \in Guards :
          /\ inner[g] # "held" => inner'[g] = inner[g]
          /\ (DropGuard(g) /\ views[g] = 0) => inner'[g] = "freed"
          /\ (Unwrap(g) /\ ~halted') => inner'[g] = "returned"
          /\ DropView(g) => inner' = inner]_vars

\* a guard that was claimed, whose view was dropped, was dropped and freed its
\* buffer, and another whose buffer unwrap() handed out
C37_Witness ==
    \E g, g2 \in Guards :
        /\ inner[g] = "freed" /\ claims[g] >= 1 /\ views[g] = 0
        /\ inner[g2] = "returned" /\ guard[g2] = "unwrapped"

\* C38: close() on a Locked handle fails with NotReady and changes nothing; on
\* any other handle it succeeds and leaves the handle Locked; read and write on
\* a Locked handle fail with NotReady.
C38_CloseLocks ==
    [][\A h \in Handles :
          /\ (Close(h) /\ fifo_lock[h] = "Locked")
                => /\ ret'.res = "NotReady"
                   /\ UNCHANGED <<fifo_lock, stream_lock, handle, stream, fut,
                                  rxVars, txVars>>
          /\ (Close(h) /\ fifo_lock[h] # "Locked")
                => (ret'.res = "Ok" /\ fifo_lock'[h] = "Locked")
          /\ (fifo_lock[h] = "Locked" /\ \E n \in 1..MaxBuf : Read(h, n))
                => (ret'.res = "NotReady" /\ UNCHANGED <<fifo_lock, fut, rxVars>>)
          /\ (fifo_lock[h] = "Locked" /\ \E n \in 1..MaxTx : Write(h, n))
                => (ret'.res = "NotReady" /\ UNCHANGED <<fifo_lock, txVars>>)]_vars

\* after a write went out, every handle is closed, the stream lock is free and
\* one more close() was refused
C38_Witness ==
    /\ ret = Ret("close", "NotReady", 0)
    /\ \A h \in Handles : handle[h] => fifo_lock[h] = "Locked"
    /\ ~stream_lock
    /\ txSeq >= 1

\* C31: for any buffer and page mapping every call of next() returns; it yields
\* finitely many chunks, each of a size greater than zero, then None, and after
\* None every later call returns None.
C31_FiniteThenNone ==
    /\ [][PrdNext =>
            /\ prdState' # "panicked"
            /\ prdChunks' # prdChunks => prdChunks'[Len(prdChunks')].size > 0
            /\ prdState = "done" => (prdState' = "done" /\ prdChunks' = prdChunks)]_vars
    /\ [](Len(prdChunks) <= prdLen)

\* C32: with the page mapping unchanged, the describer obtained from a claimed
\* view yields the same descriptions as the one obtained from the guard, and a
\* fresh describer starts at buffer offset 0.
C32_ViewDescribesSameRegions ==
    /\ [][\A kind \in {"guard", "view"}, g \in Guards :
             Prd(kind, g) => (prdNext' = 0 /\ prdChunks' = <<>>)]_vars
    /\ [](/\ prdChunks # <<>> => prdChunks[1].start = 0
          /\ \A g \in Guards :
               /\ (prdSeqs[g].guard # NoSeq /\ prdSeqs[g].view # NoSeq)
                     => prdSeqs[g].view = prdSeqs[g].guard
               /\ (prdState = "done" /\ prdSrc = [kind |-> "view", g |-> g]
                     /\ prdSeqs[g].guard # NoSeq)
                     => prdChunks = prdSeqs[g].guard)

\* the guard's describer yielded two descriptions and None before the claim,
\* and the describer of the claimed view has yielded its two and None
C32_Witness ==
    /\ prdSrc = [kind |-> "view", g |-> 1]
    /\ prdState = "done"
    /\ Len(prdChunks) = 2
    /\ prdSeqs[1].guard = prdChunks
    /\ claims[1] = 1 /\ views[1] = 1

\* the pages allocate maps for a block at `ptr` of `size` bytes: those of the
\* whole-page virtual range behind it
BlockPages(ptr, size) ==
    LET b == ptr \div PAGE_SIZE IN b..(b + PagesFor(size) - 1)

\* C33: the slice allocate returns has the layout's size, starts at the physical
\* address's offset in its page, and each of its bytes lies in a page this call
\* mapped and translates to the physical address plus the byte's index.
C33_SliceTranslatesToPhys ==
    [][\A size \in LayoutSizes :
          (Allocate(size) /\ mmioRet'.res = "Ok")
              => LET ptr == mmioRet'.ptr IN
                 /\ [ptr |-> ptr, size |-> size] \in mmioLive'
                 /\ ptr % PAGE_SIZE = mmioAddr % PAGE_SIZE
                 /\ \A j \in 0..(size - 1) :
                      LET pg == (ptr + j) \div PAGE_SIZE IN
                      /\ pageTable[pg] = NoMap
                      /\ pageTable'[pg] # NoMap
                      /\ pageTable'[pg].frame * PAGE_SIZE + ((ptr + j) % PAGE_SIZE)
                            = mmioAddr + j]_vars

\* C34: allocate maps exactly the pages of the virtual range it obtained, the
\* i-th of them to the frame of the physical address advanced by i pages, and
\* changes no other page.
C34_MapsExactlyTheRange ==
    [][\A size \in LayoutSizes :
          ((Allocate(size) \/ BoxedAlloc(size)) /\ mmioRet'.res = "Ok")
              => \E r \in virtRanges' \ virtRanges :
                    /\ r.n = PagesFor(size)
                    /\ mmioRet'.ptr \div PAGE_SIZE = r.base
                    /\ \A p \in PtPages :
                         IF p \in r.base..(r.base + r.n - 1)
                         THEN /\ pageTable[p] = NoMap
                              /\ pageTable'[p].frame = (mmioAddr \div PAGE_SIZE) + (p - r.base)
                         ELSE pageTable'[p] = pageTable[p]]_vars

\* a block of two pages is live at an address with a page offset, its pages
\* mapped to the two frames from that of the physical address on
C34_Witness ==
    /\ ~halted
    /\ mmioAddr % PAGE_SIZE # 0
    /\ mmioRet.op = "allocate" /\ mmioRet.res = "Ok"
    /\ [ptr |-> mmioRet.ptr, size |-> PAGE_SIZE + 1] \in mmioLive
    /\ LET b == mmioRet.ptr \div PAGE_SIZE IN
       /\ pageTable[b].frame = mmioAddr \div PAGE_SIZE
       /\ pageTable[b + 1].frame = (mmioAddr \div PAGE_SIZE) + 1

\* C35: a grow or shrink that returns has unmapped the pages of the old block
\* that are not part of the new one, handed the old virtual range back, and
\* mapped the new range to the same physical base, as deallocate followed by
\* allocate does.
C35_RegrowIsDeallocAlloc ==
    [][\A a \in mmioLive, size \in LayoutSizes :
          ((Grow(a, size) \/ Shrink(a, size)) /\ mmioRet'.res = "Ok")
              => LET ptr == mmioRet'.ptr
                     new == BlockPages(ptr, size)
                     old == BlockPages(a.ptr, a.size)
                 IN  /\ ptr % PAGE_SIZE = mmioAddr % PAGE_SIZE
                     /\ \A p \in old \ new : pageTable'[p] = NoMap
                     /\ \A p \in new :
                          pageTable'[p].frame
                             = (mmioAddr \div PAGE_SIZE) + (p - ptr \div PAGE_SIZE)
                     /\ [base |-> ptr \div PAGE_SIZE, n |-> PagesFor(size)] \in virtRanges'
                     /\ \A r \in virtRanges' :
                          r.base \in old => r.base = ptr \div PAGE_SIZE
                     /\ mmioLive' = (mmioLive \ {a}) \cup {[ptr |-> ptr, size |-> size]}]_vars

\* a block of two pages was shrunk to one byte: the page behind it is unmapped
C35_Witness ==
    /\ ~halted
    /\ mmioRet.op = "shrink" /\ mmioRet.res = "Ok"
    /\ mmioLive = {[ptr |-> mmioRet.ptr, size |-> 1]}
    /\ Cardinality({p \in PtPages : pageTable[p] # NoMap}) = 1

\* C36: a grow or shrink that returns an allocation error leaves the old block
\* mapped and valid: page table, virtual ranges and live blocks are unchanged.
C36_FailedRegrowKeepsBlock ==
    [][\A a \in mmioLive, size \in LayoutSizes :
          ((Grow(a, size) \/ Shrink(a, size)) /\ mmioRet'.res = "AllocError")
              => UNCHANGED <<pageTable, virtRanges, mmioLive>>]_vars

================================================================
